---- MODULE Spec2Model ----
(***************************************************************************)
(* Session Manager of the webrtc sdk (src/src/sessions/session-manager.ts) *)
(* and the softphone session handler                                       *)
(* (src/src/sessions/softphone-session-handler.ts).                        *)
(*                                                                         *)
(* The state is the manager's pending registry, the transport's session    *)
(* collection (jingle.sessions), the handlers' disabled flags and the sdk  *)
(* configuration.  Every entry point of the manager is one action; the     *)
(* collaborators (signaling transport, REST api, media engine) answer      *)
(* nondeterministically.  The variable last records what the most recent   *)
(* entry point was given, what it returned or raised, and which handler    *)
(* and collaborator operations it invoked.                                 *)
(***************************************************************************)
EXTENDS Integers, Sequences, FiniteSets, TLC

(* ---------------------------------------------------------------- bounds *)

MaxSessions == 2
MaxConvs == 2
\* The ids and conversations of the specification that joins proposals and sessions.
MaxJointIds == 1
MaxJointConvs == 1
\* The senders one session's peer connection carries.
MaxSenders == 2
\* The softphone handler calls one behaviour makes.
MaxProcs == 2
\* The updates one fan-out operation can have spawned.
MaxTasks == 8
\* The fan-out operations one behaviour runs, one after the other.
MaxPasses == 2
\* The participants the REST collaborator lists for one conversation.
MaxParticipants == 3

Ids == 1..MaxSessions
Convs == 1..MaxConvs
\* 0 stands for an identifier the caller left out (undefined or '').
NoId == 0

(* ----------------------------------------------------------------- types *)

SessionTypes == {"softphone", "collaborateVideo", "screenShare"}
NoType == "none"

SdkErrorTypes == {"generic", "initialization", "http", "invalid_options", "not_supported", "session"}

\* Peer addresses, by the pattern they match; NoJid is a missing address.
Jids == {"softphoneJid", "videoJid", "screenShareJid", "unknownJid"}
NoJid == "nojid"

\* The handlers in the order the manager constructs them.
sessionHandlersToConfigure == <<"softphone", "collaborateVideo", "screenShare">>

VARIABLES
  disabled,        \* handler.disabled, per handler (by its sessionType)
  config,          \* sdk._config: disableAutoAnswer, autoConnectSessions
  pendingSessions, \* SessionManager.pendingSessions: id -> IPendingSession
  sessions,        \* jingle.sessions: id -> IJingleSession
  fate,            \* per session id: "new", "live", "ended" (by endSession), "dropped" (by the peer)
  last,            \* the most recent entry point: input, outcome, invocations
  active,          \* session.active, per session id
  senders,         \* session.pc.getSenders(), per session id
  sinkId,          \* session._outputAudioElement.sinkId, per session id
  devices,         \* the media engine's device inventory
  fan,             \* the fan-out operation in flight: its spawned updates and its own outcome
  pcParticipant,   \* session.pcParticipant, per session id
  procs,           \* the softphone handler calls in flight, each at its await
  fetches          \* the participant-list fetches issued so far, per session id

media == <<active, senders, sinkId, devices, fan>>
soft == <<pcParticipant, procs, fetches>>
vars == <<disabled, config, pendingSessions, sessions, fate, last, media, soft>>

(* --------------------------------------------------------------- helpers *)

Remove(f, k) == [x \in DOMAIN f \ {k} |-> f[x]]
Put(f, k, v) == [x \in DOMAIN f \cup {k} |-> IF x = k THEN v ELSE f[x]]

\* What an entry point did: its result ("ok", an SdkErrorTypes kind, "failed" for a
\* collaborator's own error, "pending" for a call that never settles), the id its
\* error carries, the handler operations and collaborator operations it invoked
\* (in order), and the registry and session collection it leaves.
Eff(result, errId, calls, tcalls, pend, sess, ft) ==
  [result |-> result, errId |-> errId, calls |-> calls, tcalls |-> tcalls,
   pend |-> pend, sess |-> sess, ft |-> ft]

Raise(kind, errId) == Eff(kind, errId, <<>>, <<>>, pendingSessions, sessions, fate)

Call(h, m, sid) == [h |-> h, m |-> m, sid |-> sid]
\* A collaborator operation and how it settled: "ok", "failed" or "never".
TCall(m, sid, st) == [m |-> m, sid |-> sid, st |-> st]

(* ------------------------------------------------------ handler lookup *)

isSoftphoneJid(jid) == jid = "softphoneJid"

shouldHandleSessionByJid(h, jid) ==
  CASE h = "softphone" -> isSoftphoneJid(jid)
    [] h = "collaborateVideo" -> jid = "videoJid"
    [] h = "screenShare" -> jid = "screenShareJid"

\* sessionHandlers.find(handler => handler.shouldHandleSessionByJid(fromJid))
FindHandlerByJid(jid) ==
  LET matching == {i \in 1..Len(sessionHandlersToConfigure) :
                     shouldHandleSessionByJid(sessionHandlersToConfigure[i], jid)}
  IN IF matching = {} THEN NoType
     ELSE sessionHandlersToConfigure[CHOOSE i \in matching : \A j \in matching : i <= j]

\* sessionHandlers.find(handler => handler.sessionType === sessionType)
FindHandlerByType(t) == IF t \in SessionTypes THEN t ELSE NoType

getSessionHandler(sessionType, fromJid) ==
  IF sessionType # NoType
  THEN LET h == FindHandlerByType(sessionType)
       IN IF h = NoType THEN [err |-> "session", h |-> NoType] ELSE [err |-> "ok", h |-> h]
  ELSE IF fromJid = NoJid
       THEN [err |-> "generic", h |-> NoType]
       ELSE LET h == FindHandlerByJid(fromJid)
            IN IF h = NoType THEN [err |-> "session", h |-> NoType] ELSE [err |-> "ok", h |-> h]

(* ------------------------------------------------------------ the state *)

NoInput == [id |-> NoId, conv |-> NoId, jid |-> NoJid, flag |-> FALSE, type |-> NoType]

\* How the collaborators answer during one entry point: ok is the signaling
\* transport (accept, decline, terminate) and the base handler's own work, mediaOk
\* the media engine, partOk the participant resolution, patchOk the REST patch,
\* terminated whether the transport emits the session's terminated notification.
Envs == [ok : BOOLEAN, mediaOk : BOOLEAN, partOk : BOOLEAN, patchOk : BOOLEAN,
         terminated : BOOLEAN]
\* The answers an entry point can observe, one representative for each: an answer
\* the entry point never gets to ask for is left at TRUE.
TransportEnvs == {e \in Envs : e.mediaOk /\ e.partOk /\ e.patchOk /\ e.terminated}
AcceptEnvs == {e \in Envs : e.partOk /\ e.patchOk /\ e.terminated /\ (~e.mediaOk => e.ok)}
MuteEnvs == {e \in Envs : e.mediaOk /\ e.terminated /\ (~e.partOk => e.patchOk)}
EndEnvs == {e \in Envs : /\ e.mediaOk
                         /\ ~e.partOk => e.patchOk
                         /\ (~e.partOk \/ ~e.patchOk) => e.terminated}

(* ------------------------------------------------------------ the media *)

\* Device labels; a track carries the label of the device it was captured from.
Labels == {"devA", "devB"}
TrackKinds == {"audio", "video"}
\* Output devices are named by their deviceId; NoDevice is the empty id (''),
\* NoElement the sinkId of a session without an output element.
OutputIds == {"spkA", "spkB"}
NoDevice == "nodevice"
NoElement == "noelement"

\* MediaDeviceInfo: inputs are told apart by label, outputs by deviceId.
InputDevices == [kind : {"audioinput", "videoinput"}, label : Labels]
OutputDevices == [kind : {"audiooutput"}, label : OutputIds]
AllDevices == InputDevices \cup OutputDevices

\* An RTCRtpSender: track is "live", "stopped" or "none" (sender.track is null);
\* screen tells a track of the session's screen-share stream.
\* The label of a screen capture track, which no device carries.
ScreenLabel == "screen"
NoParticipant == 0
NoFan == [op |-> "none", phase |-> "idle", tasks |-> <<>>, result |-> "none",
          snapshot |-> <<>>, arg |-> NoDevice, passes |-> 0]

Init ==
  /\ disabled \in [SessionTypes -> BOOLEAN]
  /\ config \in [disableAutoAnswer : BOOLEAN, autoConnectSessions : BOOLEAN]
  /\ pendingSessions = <<>>
  /\ sessions = <<>>
  /\ fate = [i \in Ids |-> "new"]
  /\ last = [op |-> "init", input |-> NoInput, result |-> "ok", errId |-> NoId,
             calls |-> <<>>, tcalls |-> <<>>]
  /\ active = [i \in Ids |-> FALSE]
  /\ senders = [i \in Ids |-> <<>>]
  /\ sinkId = [i \in Ids |-> NoElement]
  /\ devices = AllDevices
  /\ fan = NoFan
  /\ pcParticipant = [i \in Ids |-> NoParticipant]
  /\ procs = <<>>
  /\ fetches = [i \in Ids |-> 0]

\* No action of the proposal lifecycle reads autoConnectSessions, and no session
\* entry point reads disableAutoAnswer.
InitPropose == Init /\ ~config.autoConnectSessions
InitSession == Init /\ ~config.disableAutoAnswer

Finish(op, input, r) ==
  /\ last' = [op |-> op, input |-> input, result |-> r.result, errId |-> r.errId,
              calls |-> r.calls, tcalls |-> r.tcalls]
  /\ pendingSessions' = r.pend
  /\ sessions' = r.sess
  /\ fate' = r.ft
  /\ UNCHANGED <<disabled, config, media, soft>>

(* ------------------------------------------------ the session collection *)

SessionIds == {sessions[i].id : i \in DOMAIN sessions}
SessionById(id) == sessions[CHOOSE i \in DOMAIN sessions : sessions[i].id = id]
WithoutSession(sess, id) == SelectSeq(sess, LAMBDA s : s.id # id)
StampSession(sess, id, t) ==
  [i \in DOMAIN sess |-> IF sess[i].id = id THEN [sess[i] EXCEPT !.sessionType = t] ELSE sess[i]]

\* The transport negotiates a new session; session ids are never reused.
TransportAddSession(id, jid, conv) ==
  /\ fate[id] = "new"
  /\ Finish("transportAdd", [NoInput EXCEPT !.id = id, !.jid = jid, !.conv = conv],
            Eff("ok", NoId, <<>>, <<>>, pendingSessions,
                Append(sessions, [id |-> id, peerID |-> jid, conversationId |-> conv,
                                  sessionType |-> NoType]),
                [fate EXCEPT ![id] = "live"]))

\* The peer ends a session: the transport destroys it.
TransportDropSession(id) ==
  /\ id \in SessionIds
  /\ Finish("transportDrop", [NoInput EXCEPT !.id = id],
            Eff("ok", NoId, <<>>, <<>>, pendingSessions, WithoutSession(sessions, id),
                [fate EXCEPT ![id] = "dropped"]))

(* ------------------------------------------------------ pending registry *)

NoPending == [id |-> NoId, autoAnswer |-> FALSE, address |-> NoJid,
              conversationId |-> NoId, sessionType |-> NoType]

getPendingSessionCreating(sessionId) ==
  IF sessionId \in DOMAIN pendingSessions THEN pendingSessions[sessionId]
  ELSE [id |-> sessionId, autoAnswer |-> FALSE, address |-> "softphoneJid",
        conversationId |-> NoId, sessionType |-> "softphone"]

getPendingSession(sessionId) ==
  IF sessionId \in DOMAIN pendingSessions THEN pendingSessions[sessionId] ELSE NoPending

removePendingSession(sessionId) ==
  Finish("removePendingSession", [NoInput EXCEPT !.id = sessionId],
         Eff("ok", NoId, <<>>, <<>>, Remove(pendingSessions, sessionId), sessions, fate))

(* --------------------------------------------------- the handlers' hooks *)

HandlerDisabledNever(h) == FALSE

HandlerDisabled(h) == disabled[h]

Status(ok) == IF ok THEN "ok" ELSE "failed"

\* Base handler: tell the transport to accept the proposal; on success the entry
\* leaves the registry.
BaseProceedWithSession(h, p, pend, env) ==
  Eff(Status(env.ok), NoId, <<Call(h, "proceedWithSession", p.id)>>,
      <<TCall("acceptProposal", p.id, Status(env.ok))>>,
      IF env.ok THEN Remove(pend, p.id) ELSE pend, sessions, fate)

BaseRejectPendingSession(h, p, pend, env) ==
  Eff(Status(env.ok), NoId, <<Call(h, "rejectPendingSession", p.id)>>,
      <<TCall("declineProposal", p.id, Status(env.ok))>>,
      IF env.ok THEN Remove(pend, p.id) ELSE pend, sessions, fate)

BaseHandlePropose(h, p, pend) ==
  Eff("ok", NoId, <<Call(h, "handlePropose", p.id)>>, <<>>, pend, sessions, fate)

ShouldAutoAnswerIgnoringConfig(p) == p.autoAnswer

ShouldAutoAnswerOnPropose(p) == p.autoAnswer /\ ~config.disableAutoAnswer

SoftphoneHandlePropose(p, pend, env) ==
  LET base == BaseHandlePropose("softphone", p, pend)
  IN IF ShouldAutoAnswerOnPropose(p)
     THEN LET r == BaseProceedWithSession("softphone", p, base.pend, env)
          IN [r EXCEPT !.calls = base.calls \o r.calls]
     ELSE base

handlePropose(h, p, pend, env) ==
  IF h = "softphone" THEN SoftphoneHandlePropose(p, pend, env) ELSE BaseHandlePropose(h, p, pend)

(* ---------------------------------------------------- proposal intake *)

IsDuplicateProposalNever(sessionInfo) == FALSE

IsDuplicateProposal(sessionInfo) == getPendingSession(sessionInfo.id) # NoPending

onProposeEffect(sessionInfo, env) ==
  LET g == getSessionHandler(NoType, sessionInfo.jid)
  IN IF g.err # "ok" THEN Raise(g.err, sessionInfo.id)
     ELSE IF HandlerDisabled(g.h) THEN Raise("ok", NoId)
     ELSE IF IsDuplicateProposal(sessionInfo) THEN Raise("ok", NoId)
     ELSE LET pendingSession == [id |-> sessionInfo.id,
                                 autoAnswer |-> sessionInfo.flag,
                                 address |-> sessionInfo.jid,
                                 conversationId |-> sessionInfo.conv,
                                 sessionType |-> g.h]
          IN handlePropose(g.h, pendingSession,
                           Put(pendingSessions, pendingSession.id, pendingSession), env)

onPropose(sessionInfo, env) == Finish("onPropose", sessionInfo, onProposeEffect(sessionInfo, env))

proceedWithSessionEffect(sessionId, env) ==
  LET pendingSession == getPendingSession(sessionId)
  IN IF pendingSession = NoPending THEN Raise("session", sessionId)
     ELSE LET g == getSessionHandler(pendingSession.sessionType, NoJid)
          IN IF g.err # "ok" THEN Raise(g.err, NoId)
             ELSE BaseProceedWithSession(g.h, pendingSession, pendingSessions, env)

proceedWithSession(sessionId, env) ==
  Finish("proceedWithSession", [NoInput EXCEPT !.id = sessionId],
         proceedWithSessionEffect(sessionId, env))

rejectPendingSessionEffect(sessionId, env) ==
  LET pendingSession == getPendingSession(sessionId)
  IN IF pendingSession = NoPending THEN Raise("session", sessionId)
     ELSE LET g == getSessionHandler(pendingSession.sessionType, NoJid)
          IN IF g.err # "ok" THEN Raise(g.err, NoId)
             ELSE BaseRejectPendingSession(g.h, pendingSession, pendingSessions, env)

rejectPendingSession(sessionId, env) ==
  Finish("rejectPendingSession", [NoInput EXCEPT !.id = sessionId],
         rejectPendingSessionEffect(sessionId, env))

(* ----------------------------------------------- the handlers' session ops *)

\* Base handler: attach the media, tell the transport the session is ready; the
\* pending entry of that id always leaves the registry.
BaseAcceptSession(h, id, pend, sess, env) ==
  Eff(Status(env.ok), NoId, <<Call(h, "acceptSession", id)>>,
      <<TCall("accept", id, Status(env.ok))>>, Remove(pend, id), sess, fate)

\* Softphone: obtain the outgoing stream and add it to the session, then the base accept.
SoftphoneAcceptSession(id, pend, sess, env) ==
  IF ~env.mediaOk
  THEN Eff("failed", NoId, <<Call("softphone", "acceptSession", id)>>,
           <<TCall("addMedia", id, "failed")>>, pend, sess, fate)
  ELSE LET r == BaseAcceptSession("softphone", id, pend, sess, env)
       IN [r EXCEPT !.tcalls = <<TCall("addMedia", id, "ok")>> \o r.tcalls]

handlerAcceptSession(h, id, pend, sess, env) ==
  IF h = "softphone" THEN SoftphoneAcceptSession(id, pend, sess, env)
  ELSE BaseAcceptSession(h, id, pend, sess, env)

BaseHandleSessionInit(h, id, pend, sess) ==
  Eff("ok", NoId, <<Call(h, "handleSessionInit", id)>>, <<>>, pend, sess, fate)

SoftphoneHandleSessionInit(id, pend, sess, env) ==
  LET base == BaseHandleSessionInit("softphone", id, pend, sess)
  IN IF config.autoConnectSessions
     THEN LET r == SoftphoneAcceptSession(id, base.pend, base.sess, env)
          IN [r EXCEPT !.calls = base.calls \o r.calls]
     ELSE base

handleSessionInit(h, id, pend, sess, env) ==
  IF h = "softphone" THEN SoftphoneHandleSessionInit(id, pend, sess, env)
  ELSE BaseHandleSessionInit(h, id, pend, sess)

\* Base handler: tell the transport to terminate and wait for its confirmation;
\* the transport destroys a terminated session.
BaseEndSession(h, id, env) ==
  Eff(Status(env.ok), NoId, <<Call(h, "endSession", id)>>,
      <<TCall("terminate", id, Status(env.ok))>>, pendingSessions,
      IF env.ok THEN WithoutSession(sessions, id) ELSE sessions,
      IF env.ok THEN [fate EXCEPT ![id] = "ended"] ELSE fate)

endSessionFallbackSwallowing(id, env, done) ==
  LET r == BaseEndSession("softphone", id, env)
  IN [r EXCEPT !.tcalls = done \o r.tcalls, !.result = "ok"]

\* The direct transport-level terminate, after the graceful path failed.
endSessionFallback(id, env, done) ==
  LET r == BaseEndSession("softphone", id, env)
  IN [r EXCEPT !.tcalls = done \o r.tcalls,
               !.result = IF env.ok THEN "ok" ELSE "session"]

\* Softphone: patch the participant to disconnected and wait for the terminated
\* notification; the wait itself cannot fail, it can only never end.
SoftphoneEndSession(id, env) ==
  IF ~env.partOk
  THEN endSessionFallback(id, env, <<TCall("getParticipant", id, "failed")>>)
  ELSE IF ~env.patchOk
  THEN endSessionFallback(id, env, <<TCall("getParticipant", id, "ok"),
                                     TCall("patchDisconnected", id, "failed")>>)
  ELSE IF env.terminated
  THEN Eff("ok", NoId, <<Call("softphone", "endSession", id)>>,
           <<TCall("getParticipant", id, "ok"), TCall("patchDisconnected", id, "ok"),
             TCall("terminated", id, "ok")>>,
           pendingSessions, WithoutSession(sessions, id), [fate EXCEPT ![id] = "ended"])
  ELSE Eff("pending", NoId, <<Call("softphone", "endSession", id)>>,
           <<TCall("getParticipant", id, "ok"), TCall("patchDisconnected", id, "ok"),
             TCall("terminated", id, "never")>>,
           pendingSessions, sessions, fate)

handlerEndSession(h, id, env) ==
  IF h = "softphone" THEN SoftphoneEndSession(id, env) ELSE BaseEndSession(h, id, env)

BaseSetMute(h, m, id, env) ==
  Eff(Status(env.ok), NoId, <<Call(h, m, id)>>, <<>>, pendingSessions, sessions, fate)

\* Softphone: patch the participant's muted field; any failure is a generic error.
SoftphoneSetAudioMute(id, env) ==
  LET done == IF ~env.partOk THEN <<TCall("getParticipant", id, "failed")>>
              ELSE <<TCall("getParticipant", id, "ok"),
                     TCall("patchMuted", id, Status(env.patchOk))>>
  IN Eff(IF env.partOk /\ env.patchOk THEN "ok" ELSE "generic", NoId,
         <<Call("softphone", "setAudioMute", id)>>, done, pendingSessions, sessions, fate)

handlerSetAudioMute(h, id, env) ==
  IF h = "softphone" THEN SoftphoneSetAudioMute(id, env)
  ELSE BaseSetMute(h, "setAudioMute", id, env)

(* -------------------------------------------------- session entry points *)

\* The session an id, or else a conversation id, names: [found, id].
getSession(id, conversationId) ==
  IF id # NoId
  THEN [found |-> id \in SessionIds, id |-> id]
  ELSE LET matching == {i \in DOMAIN sessions : sessions[i].conversationId = conversationId}
       IN IF matching = {} THEN [found |-> FALSE, id |-> NoId]
          ELSE [found |-> TRUE,
                id |-> sessions[CHOOSE i \in matching : \A j \in matching : i <= j].id]

StampedTypeSoftphone(h) == "softphone"

StampedType(h) == h

onSessionInitEffect(id, env) ==
  LET g == getSessionHandler(NoType, SessionById(id).peerID)
  IN IF g.err # "ok" THEN Raise(g.err, id)
     ELSE IF HandlerDisabled(g.h) THEN Raise("ok", NoId)
     ELSE handleSessionInit(g.h, id, pendingSessions,
                            StampSession(sessions, id, StampedType(g.h)), env)

onSessionInit(id, env) ==
  /\ id \in SessionIds
  /\ Finish("onSessionInit", [NoInput EXCEPT !.id = id], onSessionInitEffect(id, env))

\* params.flag: whether the caller passed a request at all.
acceptSessionEffect(params, env) ==
  IF ~params.flag \/ params.id = NoId THEN Raise("invalid_options", NoId)
  ELSE LET s == getSession(params.id, NoId)
       IN IF ~s.found THEN Raise("session", params.id)
          ELSE LET g == getSessionHandler(NoType, SessionById(s.id).peerID)
               IN IF g.err # "ok" THEN Raise(g.err, s.id)
                  ELSE handlerAcceptSession(g.h, s.id, pendingSessions, sessions, env)

acceptSession(params, env) == Finish("acceptSession", params, acceptSessionEffect(params, env))

endSessionEffect(params, env) ==
  IF params.id = NoId /\ params.conv = NoId THEN Raise("session", NoId)
  ELSE LET s == getSession(params.id, params.conv)
       IN IF ~s.found THEN Raise("session", params.id)
          ELSE LET g == getSessionHandler(NoType, SessionById(s.id).peerID)
               IN IF g.err # "ok" THEN Raise(g.err, s.id)
                  ELSE handlerEndSession(g.h, s.id, env)

endSession(params, env) == Finish("endSession", params, endSessionEffect(params, env))

setVideoMuteEffect(id, env) ==
  LET s == getSession(id, NoId)
  IN IF ~s.found THEN Raise("session", id)
     ELSE LET g == getSessionHandler(SessionById(s.id).sessionType, NoJid)
          IN IF g.err # "ok" THEN Raise(g.err, NoId)
             ELSE BaseSetMute(g.h, "setVideoMute", s.id, env)

setVideoMute(id, env) ==
  Finish("setVideoMute", [NoInput EXCEPT !.id = id], setVideoMuteEffect(id, env))

setAudioMuteEffect(id, env) ==
  LET s == getSession(id, NoId)
  IN IF ~s.found THEN Raise("session", id)
     ELSE LET g == getSessionHandler(SessionById(s.id).sessionType, NoJid)
          IN IF g.err # "ok" THEN Raise(g.err, NoId)
             ELSE handlerSetAudioMute(g.h, s.id, env)

setAudioMute(id, env) ==
  Finish("setAudioMute", [NoInput EXCEPT !.id = id], setAudioMuteEffect(id, env))

updateOutgoingMediaEffect(id, env) ==
  LET s == getSession(id, NoId)
  IN IF ~s.found THEN Raise("session", id)
     ELSE LET g == getSessionHandler(NoType, SessionById(s.id).peerID)
          IN IF g.err # "ok" THEN Raise(g.err, s.id)
             ELSE Eff(Status(env.ok), NoId, <<Call(g.h, "updateOutgoingMedia", s.id)>>, <<>>,
                      pendingSessions, sessions, fate)

updateOutgoingMedia(id, env) ==
  Finish("updateOutgoingMedia", [NoInput EXCEPT !.id = id], updateOutgoingMediaEffect(id, env))

\* sessions.forEach from the i-th session on, calls being the invocations so far.
RECURSIVE ConversationUpdateFrom(_, _, _)
ConversationUpdateFrom(i, update, calls) ==
  IF i > Len(sessions) THEN Eff("ok", NoId, calls, <<>>, pendingSessions, sessions, fate)
  ELSE IF sessions[i].conversationId # update THEN ConversationUpdateFrom(i + 1, update, calls)
  ELSE LET g == getSessionHandler(sessions[i].sessionType, NoJid)
       IN IF g.err # "ok" THEN Eff(g.err, NoId, calls, <<>>, pendingSessions, sessions, fate)
          ELSE IF HandlerDisabled(g.h) THEN ConversationUpdateFrom(i + 1, update, calls)
          ELSE ConversationUpdateFrom(i + 1, update,
                 Append(calls, Call(g.h, "handleConversationUpdate", sessions[i].id)))

handleConversationUpdate(update) ==
  Finish("handleConversationUpdate", [NoInput EXCEPT !.conv = update],
         ConversationUpdateFrom(1, update, <<>>))

startSessionEffect(sessionType, env) ==
  LET g == getSessionHandler(sessionType, NoJid)
  IN IF g.err # "ok" THEN Raise(g.err, NoId)
     ELSE IF HandlerDisabled(g.h) THEN Raise("generic", NoId)
     ELSE Eff(Status(env.ok), NoId, <<Call(g.h, "startSession", NoId)>>, <<>>,
              pendingSessions, sessions, fate)

startSession(sessionType, env) ==
  Finish("startSession", [NoInput EXCEPT !.type = sessionType], startSessionEffect(sessionType, env))

(* ---------------------------------------------------- media and devices *)

Sender(kind, label, screen) ==
  [kind |-> kind, label |-> label, track |-> "live", screen |-> screen,
   enabled |-> TRUE, outbound |-> ~screen]

\* getEnumeratedDevices: the inventory by kind.
videoDevices == {d \in devices : d.kind = "videoinput"}
audioDevices == {d \in devices : d.kind = "audioinput"}
outputDevices == {d \in devices : d.kind = "audiooutput"}

\* d.kind.slice(0, 5)
Slice5(kind) == IF kind = "videoinput" THEN "video" ELSE "audio"

InputKind(kind) == IF kind = "video" THEN "videoinput" ELSE "audioinput"

\* An entry point that touches only the media state.
FinishMedia(op, input, result, calls) ==
  /\ last' = [op |-> op, input |-> input, result |-> result, errId |-> NoId,
              calls |-> calls, tcalls |-> <<>>]
  /\ UNCHANGED <<disabled, config, pendingSessions, sessions, fate, soft>>

\* No fan-out operation is under way.
Idle == fan.phase = "idle"
CanFanOut == Idle /\ fan.passes < MaxPasses

\* The transport completes the negotiation of an accepted session: it is active.
\* Only a session that a handler took over at init gets that far.
TransportActivateSession(id) ==
  /\ Idle
  /\ id \in SessionIds
  /\ ~active[id]
  /\ SessionById(id).sessionType # NoType
  /\ active' = [active EXCEPT ![id] = TRUE]
  /\ FinishMedia("environment", NoInput, "ok", <<>>)
  /\ UNCHANGED <<senders, sinkId, devices, fan>>

\* The media engine attaches a captured track to an active session; a softphone
\* session never carries video.
AttachTrack(id, kind, label, screen) ==
  /\ Idle
  /\ id \in SessionIds
  /\ active[id]
  /\ Len(senders[id]) < MaxSenders
  /\ screen => kind = "video" /\ label = ScreenLabel
  /\ kind = "video" => SessionById(id).sessionType # "softphone"
  /\ ~screen => [kind |-> InputKind(kind), label |-> label] \in devices
  /\ senders' = [senders EXCEPT ![id] = Append(@, Sender(kind, label, screen))]
  /\ FinishMedia("environment", NoInput, "ok", <<>>)
  /\ UNCHANGED <<active, sinkId, devices, fan>>

\* The incoming audio of an active softphone session is attached to an output
\* element, at accept or when the peer's track arrives.
AttachOutput(id, deviceId) ==
  /\ Idle
  /\ id \in SessionIds
  /\ active[id]
  /\ SessionById(id).sessionType = "softphone"
  /\ sinkId[id] = NoElement
  /\ [kind |-> "audiooutput", label |-> deviceId] \in devices
  /\ sinkId' = [sinkId EXCEPT ![id] = deviceId]
  /\ FinishMedia("environment", NoInput, "ok", <<>>)
  /\ UNCHANGED <<active, senders, devices, fan>>

\* A device is unplugged.
DeviceLost(d) ==
  /\ Idle
  /\ d \in devices
  /\ devices' = devices \ {d}
  /\ FinishMedia("environment", NoInput, "ok", <<>>)
  /\ UNCHANGED <<active, senders, sinkId, fan>>

(* ------------------------------------------------------------- fan-out *)

\* One spawned update: a handler operation on a session, "inflight" until it
\* settles "ok" or "failed".  The nested all-sessions output update is a task of
\* its own ("awaiting" the device id, then "joining" its children); inner tells
\* the updates that nested call spawned.
Task(m, h, sid, st) ==
  [m |-> m, h |-> h, sid |-> sid, st |-> st, audio |-> FALSE, video |-> FALSE,
   slot |-> 0, dev |-> NoDevice, inner |-> FALSE]

TaskCalls(tasks) == [k \in DOMAIN tasks |-> Call(tasks[k].h, tasks[k].m, tasks[k].sid)]

\* Promise.all over a list of promises: it rejects as soon as one of them has
\* rejected and resolves once all of them have resolved.
PromiseAll(sts) ==
  IF \E k \in DOMAIN sts : sts[k] = "failed" THEN "failed"
  ELSE IF \A k \in DOMAIN sts : sts[k] = "ok" THEN "ok"
  ELSE "running"

Statuses(tasks, inner) ==
  LET sel == SelectSeq(tasks, LAMBDA t : t.inner = inner)
  IN [k \in DOMAIN sel |-> sel[k].st]

\* The nested all-sessions call settles as the Promise.all over its children.
JoinNested(tasks) ==
  [k \in DOMAIN tasks |->
     IF tasks[k].m = "updateOutputDeviceForAllSessions" /\ tasks[k].st = "joining"
     THEN [tasks[k] EXCEPT !.st = LET r == PromiseAll(Statuses(tasks, TRUE))
                                  IN IF r = "running" THEN "joining" ELSE r]
     ELSE tasks[k]]

Settled(t) == t.st \in {"ok", "failed"}
\* The operation is "done" once nothing it spawned is still running.
PhaseOf(tasks) == IF \A k \in DOMAIN tasks : Settled(tasks[k]) THEN "done" ELSE "joining"

\* this.getAllActiveSessions(), as session ids in the collection's order.
getAllActiveSessions ==
  LET act == SelectSeq(sessions, LAMBDA x : active[x.id])
  IN [k \in DOMAIN act |-> act[k].id]

\* manager.updateOutgoingMedia({ session, ... }): an async function, so a failing
\* handler lookup is a rejected promise.
UpdateOutgoingMediaTask(id, audio, video) ==
  LET g == IF id \in SessionIds THEN getSessionHandler(NoType, SessionById(id).peerID)
           ELSE [err |-> "session", h |-> NoType]
  IN [Task("updateOutgoingMedia", g.h, id, IF g.err = "ok" THEN "inflight" ELSE "failed")
        EXCEPT !.audio = audio, !.video = video]

updateOutgoingMediaForAllSessions(audio, video) ==
  /\ CanFanOut
  /\ LET ids == getAllActiveSessions
         tasks == [k \in DOMAIN ids |-> UpdateOutgoingMediaTask(ids[k], audio, video)]
         r == PromiseAll(Statuses(tasks, FALSE))
     IN /\ fan' = [op |-> "updateOutgoingMediaForAllSessions",
                   phase |-> PhaseOf(tasks),
                   tasks |-> tasks, result |-> r, snapshot |-> ids, arg |-> NoDevice,
                   passes |-> fan.passes + 1]
        /\ FinishMedia("updateOutgoingMediaForAllSessions", NoInput, r, TaskCalls(tasks))
  /\ UNCHANGED <<active, senders, sinkId, devices>>

\* What the caller may pass as a device id: a literal id, true ("any") or null.
AnyDevice == "any"
DeviceArgs == OutputIds \cup {AnyDevice, NoDevice}

\* getValidDeviceId(sdk, 'audiooutput', deviceId) || '': the literal id when the
\* inventory has it, else a device the media engine picks, else ''.
ValidOutputIds(arg) ==
  IF [kind |-> "audiooutput", label |-> arg] \in devices THEN {arg}
  ELSE IF outputDevices = {} THEN {NoDevice}
  ELSE {d.label : d \in outputDevices}

\* typeof outputDeviceId === 'string' && _outputDeviceId !== outputDeviceId
OutputDeviceNotFoundNever(arg, valid) == FALSE

OutputDeviceNotFound(arg, valid) == arg \in OutputIds /\ valid # arg

\* sessions.map(session => handler.updateOutputDevice(session, _outputDeviceId)) from
\* the i-th target on: a failing handler lookup throws out of the map.
RECURSIVE OutputTasksFrom(_, _, _, _, _)
OutputTasksFrom(i, ids, dev, inner, tasks) ==
  IF i > Len(ids) THEN [err |-> "ok", tasks |-> tasks]
  ELSE LET g == getSessionHandler(NoType, SessionById(ids[i]).peerID)
       IN IF g.err # "ok" THEN [err |-> g.err, tasks |-> tasks]
          ELSE OutputTasksFrom(i + 1, ids, dev, inner,
                 Append(tasks, [Task("updateOutputDevice", g.h, ids[i], "inflight")
                                  EXCEPT !.dev = dev, !.inner = inner]))

\* getAllActiveSessions().filter(s => s.sessionType !== SessionTypes.acdScreenShare)
OutputTargets ==
  LET act == SelectSeq(sessions, LAMBDA x : active[x.id] /\ x.sessionType # "screenShare")
  IN [k \in DOMAIN act |-> act[k].id]

\* updateOutputDeviceForAllSessions up to its await of getValidDeviceId.
updateOutputDeviceForAllSessions(outputDeviceId) ==
  /\ CanFanOut
  /\ fan' = [op |-> "updateOutputDeviceForAllSessions", phase |-> "validating",
             tasks |-> <<>>, result |-> "running", snapshot |-> <<>>,
             arg |-> outputDeviceId, passes |-> fan.passes + 1]
  /\ FinishMedia("updateOutputDeviceForAllSessions", NoInput, "running", <<>>)
  /\ UNCHANGED <<active, senders, sinkId, devices>>

\* ... and from there on, valid being the device id getValidDeviceId resolved to.
OutputDeviceValidated(valid) ==
  /\ fan.op = "updateOutputDeviceForAllSessions" /\ fan.phase = "validating"
  /\ valid \in ValidOutputIds(fan.arg)
  /\ IF OutputDeviceNotFound(fan.arg, valid)
     THEN /\ fan' = [fan EXCEPT !.phase = "done", !.result = "ok"]
          /\ FinishMedia("outputDeviceValidated", NoInput, "ok", <<>>)
     ELSE LET o == OutputTasksFrom(1, OutputTargets, valid, FALSE, <<>>)
              r == IF o.err # "ok" THEN o.err ELSE PromiseAll(Statuses(o.tasks, FALSE))
          IN /\ fan' = [fan EXCEPT !.phase = PhaseOf(o.tasks), !.tasks = o.tasks,
                                   !.result = r, !.snapshot = OutputTargets]
             /\ FinishMedia("outputDeviceValidated", NoInput, r, TaskCalls(o.tasks))
  /\ UNCHANGED <<active, senders, sinkId, devices>>

(* ------------------------------------------------------ reconciliation *)

\* The senders the pass inspects: those with a track that is not part of the
\* session's screen-share stream.
InspectedSendersWithScreen(id) ==
  {k \in DOMAIN senders[id] : senders[id][k].track # "none"}

InspectedSenders(id) ==
  {k \in DOMAIN senders[id] : senders[id][k].track # "none" /\ ~senders[id][k].screen}

\* (track.kind === 'video' ? videoDevices : audioDevices).find(
\*    d => d.label === track.label && d.kind.slice(0, 5) === track.kind)
deviceExists(track) ==
  \E d \in (IF track.kind = "video" THEN videoDevices ELSE audioDevices) :
     d.label = track.label /\ Slice5(d.kind) = track.kind

\* updates.get(session.id)[kind]
LostKind(id, kind) ==
  \E k \in InspectedSenders(id) : senders[id][k].kind = kind /\ ~deviceExists(senders[id][k])

\* The device-update plan (the updates map, keyed by session id), in the order
\* its entries were created.
UpdatePlanPerTrack(snapshot) ==
  SelectSeq(snapshot, LAMBDA id : LostKind(id, "audio") \/ LostKind(id, "video"))
  \o SelectSeq(snapshot, LAMBDA id :
        Cardinality({k \in InspectedSenders(id) : ~deviceExists(senders[id][k])}) > 1)

UpdatePlan(snapshot) ==
  SelectSeq(snapshot, LAMBDA id : LostKind(id, "audio") \/ LostKind(id, "video"))

\* hasOutputDeviceSupport() && session._outputAudioElement && no device of its sinkId
OutputDeviceLost(snapshot, support) ==
  \E k \in DOMAIN snapshot :
     /\ support
     /\ sinkId[snapshot[k]] # NoElement
     /\ ~\E d \in outputDevices : d.label = sinkId[snapshot[k]]

\* handler.getSendersByTrackType(jingleSession, 'audio').filter(sender => sender.track)
AudioSendersWithTrack(sndrs, id) ==
  {k \in DOMAIN sndrs[id] : sndrs[id][k].kind = "audio" /\ sndrs[id][k].track # "none"}

\* The slots of a set, in ascending order.
RECURSIVE SlotSeq(_)
SlotSeq(S) ==
  IF S = {} THEN <<>>
  ELSE LET m == CHOOSE x \in S : \A y \in S : x <= y IN <<m>> \o SlotSeq(S \ {m})

\* sender.track.stop(); ...; jingleSession._outboundStream.removeTrack(sender.track)
StopAudioTracks(sndrs, id) ==
  [sndrs EXCEPT ![id] = [k \in DOMAIN @ |->
     IF k \in AudioSendersWithTrack(sndrs, id)
     THEN [@[k] EXCEPT !.track = "stopped", !.outbound = FALSE] ELSE @[k]]]

\* A lost kind with no device of that kind left is muted, else switched.
MuteWhenNoDevice(lost, remaining) == lost /\ remaining = {}
SwitchWhenDevice(lost, remaining) == lost /\ remaining # {}

\* What the pass spawns for one session of the plan, in the code's order.
SessionUpdates(h, id, sndrs) ==
  LET muteVideo == MuteWhenNoDevice(LostKind(id, "video"), videoDevices)
      muteAudio == MuteWhenNoDevice(LostKind(id, "audio"), audioDevices)
      slots == SlotSeq(AudioSendersWithTrack(sndrs, id))
      opts == [video |-> SwitchWhenDevice(LostKind(id, "video"), videoDevices),
               audio |-> SwitchWhenDevice(LostKind(id, "audio"), audioDevices)]
  IN (IF muteVideo THEN <<Task("setVideoMute", h, id, "inflight")>> ELSE <<>>)
     \o (IF muteAudio
         THEN <<Task("setAudioMute", h, id, "inflight")>>
              \o [k \in DOMAIN slots |->
                    [Task("removeMediaFromSession", h, id, "inflight") EXCEPT !.slot = slots[k]]]
         ELSE <<>>)
     \o (IF opts.video \/ opts.audio
         THEN <<[Task("updateOutgoingMedia", h, id, "inflight")
                   EXCEPT !.audio = opts.audio, !.video = opts.video]>>
         ELSE <<>>)

\* for (const [sessionId, mediaToUpdate] of updates), from the i-th entry on: a
\* session that cannot be looked up, or has no handler, throws out of the loop.
RECURSIVE ReconcileFrom(_, _, _, _)
ReconcileFrom(i, plan, tasks, sndrs) ==
  IF i > Len(plan) THEN [err |-> "ok", tasks |-> tasks, sndrs |-> sndrs]
  ELSE LET s == getSession(plan[i], NoId)
       IN IF ~s.found THEN [err |-> "session", tasks |-> tasks, sndrs |-> sndrs]
          ELSE LET g == getSessionHandler(NoType, SessionById(s.id).peerID)
               IN IF g.err # "ok" THEN [err |-> g.err, tasks |-> tasks, sndrs |-> sndrs]
                  ELSE ReconcileFrom(i + 1, plan,
                         tasks \o SessionUpdates(g.h, s.id, sndrs),
                         IF MuteWhenNoDevice(LostKind(s.id, "audio"), audioDevices)
                         THEN StopAudioTracks(sndrs, s.id) ELSE sndrs)

\* The promise an operation returned: an error thrown on the way stays; else
\* it is the Promise.all over what the operation itself spawned.
Outcome(err, tasks) == IF err # "ok" THEN err ELSE PromiseAll(Statuses(tasks, FALSE))

\* validateOutgoingMediaTracks up to its await of getEnumeratedDevices.
validateOutgoingMediaTracks ==
  /\ CanFanOut
  /\ fan' = [op |-> "validateOutgoingMediaTracks", phase |-> "enumerating",
             tasks |-> <<>>, result |-> "running", snapshot |-> getAllActiveSessions,
             arg |-> NoDevice, passes |-> fan.passes + 1]
  /\ FinishMedia("validateOutgoingMediaTracks", NoInput, "running", <<>>)
  /\ UNCHANGED <<active, senders, sinkId, devices>>

\* ... and from there on; support is hasOutputDeviceSupport().  The flag of the
\* step's record is the scan's updateOutputDeviceForAllSessions.
DevicesEnumerated(support) ==
  /\ fan.op = "validateOutgoingMediaTracks" /\ fan.phase = "enumerating"
  /\ LET plan == UpdatePlan(fan.snapshot)
         output == OutputDeviceLost(fan.snapshot, support)
     IN IF plan = <<>> /\ ~output
        THEN /\ fan' = [fan EXCEPT !.phase = "done", !.result = "ok"]
             /\ senders' = senders
             /\ FinishMedia("devicesEnumerated", NoInput, "ok", <<>>)
        ELSE LET r == ReconcileFrom(1, plan, <<>>, senders)
                 tasks == IF r.err = "ok" /\ output
                          THEN Append(r.tasks,
                                 [Task("updateOutputDeviceForAllSessions", NoType, NoId, "awaiting")
                                    EXCEPT !.dev = AnyDevice])
                          ELSE r.tasks
             IN /\ fan' = [fan EXCEPT !.phase = PhaseOf(tasks), !.tasks = tasks,
                                      !.result = Outcome(r.err, tasks)]
                /\ senders' = r.sndrs
                /\ FinishMedia("devicesEnumerated", [NoInput EXCEPT !.flag = output],
                               Outcome(r.err, tasks),
                               TaskCalls(tasks))
  /\ UNCHANGED <<active, sinkId, devices>>

\* The nested updateOutputDeviceForAllSessions(true) gets its device id and spawns.
NestedOutputValidated(valid) ==
  /\ fan.op = "validateOutgoingMediaTracks"
  /\ valid \in ValidOutputIds(AnyDevice)
  /\ \E k \in DOMAIN fan.tasks :
       /\ fan.tasks[k].st = "awaiting"
       /\ LET o == OutputTasksFrom(1, OutputTargets, valid, TRUE, <<>>)
              nested == [fan.tasks EXCEPT ![k].st = IF o.err = "ok" THEN "joining" ELSE "failed"]
              tasks == JoinNested(nested \o o.tasks)
          IN /\ fan' = [fan EXCEPT !.tasks = tasks, !.phase = PhaseOf(tasks),
                                   !.result = IF fan.result = "running"
                                              THEN PromiseAll(Statuses(tasks, FALSE)) ELSE @]
             /\ FinishMedia("nestedOutputValidated", NoInput, "ok", TaskCalls(o.tasks))
  /\ UNCHANGED <<active, senders, sinkId, devices>>

\* What a settled update did to the session (the base handler's operations;
\* the softphone handler never switches video and does not mute locally).
SendersAfter(t, pick) ==
  LET own == senders[t.sid]
  IN CASE t.m = "removeMediaFromSession" ->
            [k \in DOMAIN own |-> IF k = t.slot THEN [own[k] EXCEPT !.track = "none"] ELSE own[k]]
       [] t.m = "setAudioMute" /\ t.h # "softphone" ->
            [k \in DOMAIN own |-> IF own[k].kind = "audio" THEN [own[k] EXCEPT !.enabled = FALSE]
                                  ELSE own[k]]
       [] t.m = "setVideoMute" ->
            [k \in DOMAIN own |-> IF own[k].kind = "video" /\ ~own[k].screen
                                  THEN [own[k] EXCEPT !.enabled = FALSE] ELSE own[k]]
       [] t.m = "updateOutgoingMedia" ->
            [k \in DOMAIN own |->
               IF /\ ~own[k].screen
                  /\ \/ own[k].kind = "audio" /\ t.audio
                     \/ own[k].kind = "video" /\ t.video /\ t.h # "softphone"
               THEN [own[k] EXCEPT !.label = pick[own[k].kind], !.track = "live",
                                   !.outbound = TRUE]
               ELSE own[k]]
       [] OTHER -> own

\* The device labels a pick-any switch can land on.
Picks(t) ==
  {p \in [audio : Labels, video : Labels] :
     /\ IF t.m = "updateOutgoingMedia" /\ t.audio
        THEN [kind |-> "audioinput", label |-> p.audio] \in devices ELSE p.audio = "devA"
     /\ IF t.m = "updateOutgoingMedia" /\ t.video /\ t.h # "softphone"
        THEN [kind |-> "videoinput", label |-> p.video] \in devices ELSE p.video = "devA"}

\* Everything the operation spawned has settled and its caller has its outcome.
FanoutDone ==
  /\ fan.phase = "done"
  /\ fan.passes < MaxPasses
  /\ fan' = [NoFan EXCEPT !.passes = fan.passes]
  /\ FinishMedia("environment", NoInput, "ok", <<>>)
  /\ UNCHANGED <<active, senders, sinkId, devices>>

\* One spawned update settles.
Settle(k, ok, pick) ==
  /\ k \in DOMAIN fan.tasks
  /\ fan.tasks[k].st = "inflight"
  /\ LET t == fan.tasks[k]
         tasks == JoinNested([fan.tasks EXCEPT ![k].st = Status(ok)])
     IN /\ ok => pick \in Picks(t)
        /\ ~ok => pick = [audio |-> "devA", video |-> "devA"]
        /\ fan' = [fan EXCEPT !.tasks = tasks, !.phase = PhaseOf(tasks),
                              !.result = IF fan.result = "running"
                                         THEN PromiseAll(Statuses(tasks, FALSE)) ELSE @]
        /\ senders' = IF ok THEN [senders EXCEPT ![t.sid] = SendersAfter(t, pick)] ELSE senders
        /\ sinkId' = IF ok /\ t.m = "updateOutputDevice" /\ sinkId[t.sid] # NoElement
                     THEN [sinkId EXCEPT ![t.sid] = t.dev] ELSE sinkId
        /\ FinishMedia("settle", NoInput, "ok", <<>>)
  /\ UNCHANGED <<active, devices>>

SessionInfos == [id : Ids, conv : Convs, jid : Jids \cup {NoJid}, flag : BOOLEAN, type : {NoType}]

(* ------------------------------------------- the softphone calls, stepped *)

\* GET /conversations/calls/{id}: body.participants, each with the id of the
\* user it stands for and its state; a participant's id is its place in the list.
LocalUserId == "me"
Body(f) == [i \in DOMAIN f |-> [id |-> i, userId |-> f[i].userId, state |-> f[i].state]]
Bodies ==
  {Body(f) : f \in UNION {[1..n -> [userId : {LocalUserId, "other"},
                                       state : {"connected", "disconnected"}]] :
                             n \in 0..MaxParticipants}}

\* participants.filter((p) => p.userId === this.sdk._personDetails.id)
participantsForUser(body) == SelectSeq(body, LAMBDA p : p.userId = LocalUserId)

\* participantsForUser.length !== 1, after the filter on state 'connected'
NarrowingFailedOnlyWhenNone(connected) == Len(connected) = 0

NarrowingFailed(connected) == Len(connected) # 1

\* What getParticipantForSession makes of a fetched list: the participant it
\* picks, or the kind of the error it throws.
ResolveParticipant(body) ==
  LET forUser == participantsForUser(body)
      connected == SelectSeq(forUser, LAMBDA p : p.state = "connected")
  IN IF Len(forUser) = 1 THEN [err |-> "ok", participant |-> forUser[1].id]
     ELSE IF Len(forUser) > 1
     THEN IF NarrowingFailed(connected)
          THEN [err |-> "generic", participant |-> NoParticipant]
          ELSE [err |-> "ok", participant |-> connected[1].id]
     ELSE [err |-> "generic", participant |-> NoParticipant]

\* One call of a softphone handler operation on a session, at its await: pc is
\* "fetching" (the participant list is requested), "patching" (setAudioMute's
\* patch is out), "ending" (endSession's patch is out and its 'terminated'
\* listener is registered), "fallback" (the direct terminate is out) or "done".
\* body is the list the call was answered with, part the participant it works
\* with, err what getParticipantForSession threw, patch the state of its patch,
\* term whether its listener heard 'terminated'; stream, attached and accept
\* belong to acceptSession.
NewProc(op, sid) ==
  [op |-> op, sid |-> sid, pc |-> "fetching", body |-> <<>>, part |-> NoParticipant,
   err |-> "none", patch |-> "none", term |-> FALSE, result |-> "running",
   stream |-> "none", attached |-> FALSE, accept |-> "none"]

\* catch (err) { throw createAndEmitSdkError.call(this.sdk, SdkErrorTypes.generic, ...) }
WrapMuteFailureRethrowing(err) == err

WrapMuteFailure(err) == "generic"

\* getParticipantForSession returned: the patch goes out (and endSession
\* registers its listener).
AfterParticipant(p, participant) ==
  [p EXCEPT !.pc = IF p.op = "setAudioMute" THEN "patching" ELSE "ending",
            !.part = participant, !.patch = "pending"]

\* getParticipantForSession threw: setAudioMute raises, endSession falls back.
AfterParticipantError(p, err) ==
  IF p.op = "setAudioMute"
  THEN [p EXCEPT !.pc = "done", !.err = err, !.result = WrapMuteFailure(err)]
  ELSE [p EXCEPT !.pc = "fallback", !.err = err]

FinishSoft(op, id, result) ==
  /\ last' = [op |-> op, input |-> [NoInput EXCEPT !.id = id], result |-> result,
              errId |-> NoId, calls |-> <<>>, tcalls |-> <<>>]
  /\ UNCHANGED <<disabled, config, pendingSessions, media>>

\* The handler operation up to its first await: if (!session.pcParticipant) the
\* participant list is requested, else the cached participant is used.
SoftphoneCalled(op, id) ==
  /\ Len(procs) < MaxProcs
  /\ id \in SessionIds
  /\ SessionById(id).sessionType = "softphone"
  /\ IF pcParticipant[id] = NoParticipant
     THEN /\ procs' = Append(procs, NewProc(op, id))
          /\ fetches' = [fetches EXCEPT ![id] = @ + 1]
     ELSE /\ procs' = Append(procs, AfterParticipant(NewProc(op, id), pcParticipant[id]))
          /\ UNCHANGED fetches
  /\ FinishSoft(op, id, "running")
  /\ UNCHANGED <<pcParticipant, sessions, fate>>

\* The participant request of call k is answered: it rejects (~ok) or brings a
\* list; session.pcParticipant is written when a participant was picked.
ParticipantsFetched(k, ok, body) ==
  /\ k \in DOMAIN procs
  /\ procs[k].pc = "fetching"
  /\ ~ok => body = <<>>
  /\ LET p == [procs[k] EXCEPT !.body = body]
         r == IF ok THEN ResolveParticipant(body)
              ELSE [err |-> "http", participant |-> NoParticipant]
         q == IF r.err = "ok" THEN AfterParticipant(p, r.participant)
              ELSE AfterParticipantError(p, r.err)
     IN /\ pcParticipant' = IF r.err = "ok"
                            THEN [pcParticipant EXCEPT ![p.sid] = r.participant]
                            ELSE pcParticipant
        /\ procs' = [procs EXCEPT ![k] = q]
        /\ FinishSoft("participantsFetched", p.sid, q.result)
  /\ UNCHANGED <<fetches, sessions, fate>>

\* The patch of call k is answered.  endSession joins its patch and its listener
\* with Promise.all: a failed patch sends it to the fallback at once.
PatchAnswered(k, ok) ==
  /\ k \in DOMAIN procs
  /\ procs[k].pc \in {"patching", "ending"}
  /\ procs[k].patch = "pending"
  /\ LET p == procs[k]
         q == IF p.op = "setAudioMute"
              THEN [p EXCEPT !.pc = "done", !.patch = Status(ok),
                             !.result = IF ok THEN "ok" ELSE WrapMuteFailure("http")]
              ELSE IF ~ok THEN [p EXCEPT !.pc = "fallback", !.patch = "failed"]
              ELSE IF p.term THEN [p EXCEPT !.pc = "done", !.patch = "ok", !.result = "ok"]
              ELSE [p EXCEPT !.patch = "ok"]
     IN /\ procs' = [procs EXCEPT ![k] = q]
        /\ FinishSoft("patchAnswered", p.sid, q.result)
  /\ UNCHANGED <<pcParticipant, fetches, sessions, fate>>

\* session.once('terminated', ...): the listeners registered on the session hear
\* its termination.
HearTerminated(prcs, id) ==
  [k \in DOMAIN prcs |->
     IF prcs[k].sid = id /\ prcs[k].pc = "ending"
     THEN IF prcs[k].patch = "ok"
          THEN [prcs[k] EXCEPT !.pc = "done", !.term = TRUE, !.result = "ok"]
          ELSE [prcs[k] EXCEPT !.term = TRUE]
     ELSE prcs[k]]

\* The transport terminates a session and destroys it.
SessionTerminated(id) ==
  /\ id \in SessionIds
  /\ sessions' = WithoutSession(sessions, id)
  /\ fate' = [fate EXCEPT ![id] = "dropped"]
  /\ procs' = HearTerminated(procs, id)
  /\ FinishSoft("sessionTerminated", id, "ok")
  /\ UNCHANGED <<pcParticipant, fetches>>

\* The direct terminate of call k is answered.
FallbackAnswered(k, ok) ==
  /\ k \in DOMAIN procs
  /\ procs[k].pc = "fallback"
  /\ LET p == procs[k]
         r == endSessionFallback(p.sid, [ok |-> ok, mediaOk |-> TRUE, partOk |-> TRUE,
                                         patchOk |-> TRUE, terminated |-> TRUE], <<>>)
         heard == IF ok THEN HearTerminated(procs, p.sid) ELSE procs
     IN /\ sessions' = r.sess
        /\ fate' = r.ft
        /\ procs' = [heard EXCEPT ![k] = [p EXCEPT !.pc = "done", !.result = r.result]]
        /\ FinishSoft("fallbackAnswered", p.sid, r.result)
  /\ UNCHANGED <<pcParticipant, fetches>>

(* ------------------------------------------ softphone acceptSession, stepped *)

\* The outgoing stream of an accept is "supplied" (params.mediaStream), the
\* "default" (the configured defaults.audioStream) or there is "none" yet.
\* if (!stream)
NeedsMediaNever(stream) == FALSE

NeedsMedia(stream) == stream = "none"

\* acceptSession up to its first await: startMedia when there is no stream yet,
\* else addMediaToSession.  The call's stream is what it holds so far, attached
\* whether addMediaToSession has put it on the session, accept the state of
\* the base accept ("none": not invoked).
AcceptSessionCalled(id, stream) ==
  /\ Len(procs) < MaxProcs
  /\ id \in SessionIds
  /\ SessionById(id).sessionType = "softphone"
  /\ procs' = Append(procs, [NewProc("acceptSession", id) EXCEPT
                               !.pc = IF NeedsMedia(stream) THEN "starting" ELSE "adding",
                               !.stream = stream])
  /\ FinishSoft("acceptSession", id, "running")
  /\ UNCHANGED <<pcParticipant, fetches, sessions, fate>>

\* sdk.media.startMedia({ audio, session }) settles.
MediaStarted(k, ok) ==
  /\ k \in DOMAIN procs
  /\ procs[k].pc = "starting"
  /\ LET q == IF ok THEN [procs[k] EXCEPT !.pc = "adding", !.stream = "acquired"]
              ELSE [procs[k] EXCEPT !.pc = "done", !.result = "failed"]
     IN /\ procs' = [procs EXCEPT ![k] = q]
        /\ FinishSoft("mediaStarted", procs[k].sid, q.result)
  /\ UNCHANGED <<pcParticipant, fetches, sessions, fate>>

\* addMediaToSession(session, stream) settles; on success the stream is the
\* session's _outboundStream, the output element is attached and the base
\* accept is invoked.
MediaAdded(k, ok) ==
  /\ k \in DOMAIN procs
  /\ procs[k].pc = "adding"
  /\ LET p == procs[k]
         q == IF ok THEN [p EXCEPT !.pc = "accepting", !.attached = TRUE, !.accept = "pending"]
              ELSE [p EXCEPT !.pc = "done", !.result = "failed"]
     IN /\ procs' = [procs EXCEPT ![k] = q]
        /\ senders' = IF ok /\ Len(senders[p.sid]) < MaxSenders
                      THEN [senders EXCEPT ![p.sid] = Append(@, Sender("audio", "devA", FALSE))]
                      ELSE senders
        /\ last' = [op |-> "mediaAdded", input |-> [NoInput EXCEPT !.id = p.sid],
                    result |-> q.result, errId |-> NoId,
                    calls |-> IF ok THEN <<Call("softphone", "acceptSession", p.sid)>> ELSE <<>>,
                    tcalls |-> <<TCall("addMedia", p.sid, Status(ok))>>]
  /\ UNCHANGED <<disabled, config, pendingSessions, sessions, fate, pcParticipant, fetches,
                 active, sinkId, devices, fan>>

\* super.acceptSession(session, params) settles.
BaseAccepted(k, ok) ==
  /\ k \in DOMAIN procs
  /\ procs[k].pc = "accepting"
  /\ LET p == procs[k]
         r == BaseAcceptSession("softphone", p.sid, pendingSessions, sessions,
                                [ok |-> ok, mediaOk |-> TRUE, partOk |-> TRUE,
                                 patchOk |-> TRUE, terminated |-> TRUE])
     IN /\ procs' = [procs EXCEPT ![k] = [p EXCEPT !.pc = "done", !.accept = r.result,
                                                   !.result = r.result]]
        /\ pendingSessions' = r.pend
        /\ last' = [op |-> "baseAccepted", input |-> [NoInput EXCEPT !.id = p.sid],
                    result |-> r.result, errId |-> NoId, calls |-> <<>>, tcalls |-> r.tcalls]
  /\ UNCHANGED <<disabled, config, sessions, fate, pcParticipant, fetches, media>>

(* ------------------------------------------------------- specifications *)

\* The proposal lifecycle: intake, proceed, reject, removal.
NextPropose ==
  \/ \E info \in SessionInfos, env \in TransportEnvs : onPropose(info, env)
  \/ \E id \in Ids, env \in TransportEnvs : proceedWithSession(id, env)
  \/ \E id \in Ids, env \in TransportEnvs : rejectPendingSession(id, env)
  \/ \E id \in Ids : removePendingSession(id)

SpecPropose == InitPropose /\ [][NextPropose]_vars

AcceptParams == [id : Ids \cup {NoId}, conv : {NoId}, jid : {NoJid}, flag : BOOLEAN, type : {NoType}]
EndParams == [id : Ids \cup {NoId}, conv : Convs \cup {NoId}, jid : {NoJid}, flag : {FALSE}, type : {NoType}]

\* The life of the transport's sessions: init, accept, mute, update, end.
NextSession ==
  \/ \E id \in Ids, jid \in Jids, conv \in Convs : TransportAddSession(id, jid, conv)
  \/ \E id \in Ids : TransportDropSession(id)
  \/ \E id \in Ids, env \in AcceptEnvs : onSessionInit(id, env)
  \/ \E params \in AcceptParams, env \in AcceptEnvs : acceptSession(params, env)
  \/ \E params \in EndParams, env \in EndEnvs : endSession(params, env)
  \/ \E id \in Ids \cup {NoId}, env \in TransportEnvs : setVideoMute(id, env)
  \/ \E id \in Ids \cup {NoId}, env \in MuteEnvs : setAudioMute(id, env)
  \/ \E id \in Ids \cup {NoId}, env \in TransportEnvs : updateOutgoingMedia(id, env)
  \/ \E update \in Convs : handleConversationUpdate(update)
  \/ \E sessionType \in SessionTypes \cup {NoType}, env \in TransportEnvs : startSession(sessionType, env)

SpecSession == InitSession /\ [][NextSession]_vars

\* What the fan-out specifications share: all handlers are enabled, sessions are
\* negotiated in the order of their ids, and the fan-out operations run one at a
\* time, the world standing still meanwhile except for the peer ending a session
\* while the operation awaits the device inventory.
InitFanout == Init /\ ~config.disableAutoAnswer /\ ~config.autoConnectSessions
                   /\ \A h \in SessionTypes : ~disabled[h]

SessionSetup(jids) ==
  \/ \E id \in Ids, jid \in jids :
       /\ Idle
       /\ id > 1 => (id - 1 \in SessionIds /\ SessionById(id - 1).sessionType # NoType)
       /\ TransportAddSession(id, jid, 1)
  \/ \E id \in Ids : fan.phase \in {"enumerating", "validating"} /\ TransportDropSession(id)
  \/ \E id \in Ids, env \in TransportEnvs : Idle /\ ~active[id] /\ onSessionInit(id, env)
  \/ \E id \in Ids : TransportActivateSession(id)

\* Reconciliation, one operation per behaviour: tracks are captured from devA of
\* their kind, devB is the spare that outlives it; spkA is the output device in use.
ReconcileLost ==
  {d \in AllDevices : /\ d.label # "spkB"
                      /\ d.label = "devB" => [d EXCEPT !.label = "devA"] \notin devices}

NextReconcile ==
  \/ SessionSetup({"softphoneJid", "videoJid"})
  \/ \E id \in Ids, kind \in TrackKinds, label \in {"devA", ScreenLabel}, screen \in BOOLEAN :
       AttachTrack(id, kind, label, screen)
  \/ \E id \in Ids : AttachOutput(id, "spkA")
  \/ \E d \in ReconcileLost : DeviceLost(d)
  \/ updateOutgoingMediaForAllSessions(TRUE, TRUE)
  \/ validateOutgoingMediaTracks
  \/ \E support \in BOOLEAN : DevicesEnumerated(support)
  \/ \E valid \in OutputIds \cup {NoDevice} : NestedOutputValidated(valid)
  \/ \E k \in 1..MaxTasks, ok \in BOOLEAN, pick \in [audio : Labels, video : Labels] :
       Settle(k, ok, pick)

SpecReconcile == InitFanout /\ [][NextReconcile]_vars

\* The all-sessions updates, over sessions of every type and both output devices.
NextFanout ==
  \/ SessionSetup(Jids \ {"unknownJid"})
  \/ \E id \in Ids, deviceId \in OutputIds : AttachOutput(id, deviceId)
  \/ \E d \in OutputDevices : DeviceLost(d)
  \/ \E audio, video \in BOOLEAN : updateOutgoingMediaForAllSessions(audio, video)
  \/ \E outputDeviceId \in DeviceArgs : updateOutputDeviceForAllSessions(outputDeviceId)
  \/ \E valid \in OutputIds \cup {NoDevice} : OutputDeviceValidated(valid)
  \/ FanoutDone
  \/ \E k \in 1..MaxTasks, ok \in BOOLEAN : Settle(k, ok, [audio |-> "devA", video |-> "devA"])

SpecFanout == InitFanout /\ [][NextFanout]_vars

\* The softphone calls on live softphone sessions.  The sessions are set up
\* before the first call; while calls are under way the world stands still but
\* for the collaborators' answers and the end of a session.
SoftphoneSetup ==
  \/ \E id \in Ids :
       /\ id > 1 => (id - 1 \in SessionIds /\ senders[id - 1] # <<>>)
       /\ TransportAddSession(id, "softphoneJid", 1)
  \/ \E id \in Ids, env \in TransportEnvs :
       /\ id \in SessionIds
       /\ SessionById(id).sessionType = NoType
       /\ onSessionInit(id, env)
  \/ \E id \in Ids : TransportActivateSession(id)
  \/ \E id \in Ids : senders[id] = <<>> /\ AttachTrack(id, "audio", "devA", FALSE)

SoftphoneAnswers(bodies) ==
  \/ \E k \in 1..MaxProcs, ok \in BOOLEAN, body \in bodies : ParticipantsFetched(k, ok, body)
  \/ \E k \in 1..MaxProcs, ok \in BOOLEAN : PatchAnswered(k, ok)
  \/ \E k \in 1..MaxProcs, ok \in BOOLEAN : FallbackAnswered(k, ok)
  \/ \E id \in Ids :
       /\ \E k \in DOMAIN procs : procs[k].sid = id /\ procs[k].pc # "done"
       /\ SessionTerminated(id)

\* Calls that overlap, answered with a few lists: one participant of the local
\* user, the same behind another user's, and none.
SoftBodies ==
  {b \in Bodies : /\ \A i \in DOMAIN b : b[i].state = "connected"
                  /\ Cardinality({i \in DOMAIN b : b[i].userId = LocalUserId}) <= 1
                  /\ Len(b) <= 2
                  /\ \A i \in DOMAIN b : b[i].userId = LocalUserId => i = Len(b)}

NextSoftphone ==
  \/ procs = <<>> /\ SoftphoneSetup
  \/ \E sessionInfo \in SessionInfos, env \in TransportEnvs :
       /\ sessionInfo.id = MaxSessions /\ sessionInfo.conv = 1
       /\ sessionInfo.jid = "softphoneJid" /\ ~sessionInfo.flag
       /\ procs = <<>> /\ sessions = <<>> /\ onPropose(sessionInfo, env)
  \/ \E id \in Ids : SoftphoneCalled("setAudioMute", id)
  \/ \E id \in Ids : SoftphoneCalled("endSession", id)
  \/ SoftphoneAnswers(SoftBodies)

SpecSoftphone == InitFanout /\ [][NextSoftphone]_vars

\* Calls one after the other, answered with every list of the bound.
NextResolve ==
  \/ procs = <<>> /\ sessions = <<>> /\ fate[1] = "new" /\ TransportAddSession(1, "softphoneJid", 1)
  \/ \E env \in TransportEnvs :
       /\ procs = <<>>
       /\ 1 \in SessionIds
       /\ SessionById(1).sessionType = NoType
       /\ onSessionInit(1, env)
  \/ (\A k \in DOMAIN procs : procs[k].pc = "done") /\ SoftphoneCalled("setAudioMute", 1)
  \/ (\A k \in DOMAIN procs : procs[k].pc = "done") /\ SoftphoneCalled("endSession", 1)
  \/ SoftphoneAnswers(Bodies)

SpecResolve == InitFanout /\ [][NextResolve]_vars

\* Softphone accepts of negotiated softphone sessions, with every source of the
\* outgoing stream.
NextAccept ==
  \/ \E id \in Ids :
       /\ procs = <<>>
       /\ id > 1 => (id - 1 \in SessionIds /\ SessionById(id - 1).sessionType # NoType)
       /\ TransportAddSession(id, "softphoneJid", 1)
  \/ \E id \in Ids, env \in TransportEnvs :
       /\ procs = <<>>
       /\ id \in SessionIds
       /\ SessionById(id).sessionType = NoType
       /\ onSessionInit(id, env)
  \/ \E id \in Ids, stream \in {"supplied", "default", "none"} : AcceptSessionCalled(id, stream)
  \/ \E k \in 1..MaxProcs, ok \in BOOLEAN : MediaStarted(k, ok)
  \/ \E k \in 1..MaxProcs, ok \in BOOLEAN : MediaAdded(k, ok)
  \/ \E k \in 1..MaxProcs, ok \in BOOLEAN : BaseAccepted(k, ok)

SpecAccept == InitFanout /\ [][NextAccept]_vars

(* Proposals and sessions together, over fewer ids. *)
JointIds == 1..MaxJointIds
JointConvs == 1..MaxJointConvs

\* Proposals and sessions are created over JointIds; the ids a caller names range
\* over all of Ids, so that a lookup can miss beside a live session.
Next ==
  \/ \E info \in SessionInfos, env \in TransportEnvs :
       info.id \in JointIds /\ info.conv \in JointConvs /\ onPropose(info, env)
  \/ \E id \in Ids, env \in TransportEnvs : proceedWithSession(id, env)
  \/ \E id \in Ids, env \in TransportEnvs : rejectPendingSession(id, env)
  \/ \E id \in JointIds : removePendingSession(id)
  \/ \E id \in JointIds, jid \in Jids, conv \in JointConvs : TransportAddSession(id, jid, conv)
  \/ \E id \in JointIds : TransportDropSession(id)
  \/ \E id \in JointIds, env \in AcceptEnvs : onSessionInit(id, env)
  \/ \E params \in AcceptParams, env \in AcceptEnvs : acceptSession(params, env)
  \/ \E params \in EndParams, env \in EndEnvs :
       params.conv \in JointConvs \cup {NoId} /\ endSession(params, env)
  \/ \E id \in Ids \cup {NoId}, env \in TransportEnvs : setVideoMute(id, env)
  \/ \E id \in Ids \cup {NoId}, env \in MuteEnvs : setAudioMute(id, env)
  \/ \E id \in Ids \cup {NoId}, env \in TransportEnvs : updateOutgoingMedia(id, env)
  \/ \E update \in JointConvs : handleConversationUpdate(update)
  \/ \E sessionType \in SessionTypes \cup {NoType}, env \in TransportEnvs : startSession(sessionType, env)

Spec == Init /\ [][Next]_vars

(* ================================================================ claims *)

HasCall(calls, m, sid) == \E k \in DOMAIN calls : calls[k].m = m /\ calls[k].sid = sid
CountT(tcalls, m) == Cardinality({k \in DOMAIN tcalls : tcalls[k].m = m})
HasT(tcalls, m, st) == \E k \in DOMAIN tcalls : tcalls[k].m = m /\ tcalls[k].st = st
TypeIn(sess, id) ==
  IF \E i \in DOMAIN sess : sess[i].id = id
  THEN sess[CHOOSE i \in DOMAIN sess : sess[i].id = id].sessionType
  ELSE NoType
Untouched == pendingSessions' = pendingSessions /\ sessions' = sessions /\ fate' = fate
Silent(l) == l.calls = <<>> /\ l.tcalls = <<>>

(* C1: the pending registry holds one entry per session id, filed under its own id;
   an onPropose whose sessionId already has a pending entry leaves the registry
   exactly as it was and invokes no handler operation (no handlePropose). *)
C1_DuplicateProposalIgnored ==
  [][/\ \A id \in DOMAIN pendingSessions' : pendingSessions'[id].id = id
     /\ (last'.op = "onPropose" /\ last'.input.id \in DOMAIN pendingSessions)
          => (pendingSessions' = pendingSessions /\ Silent(last'))]_vars

\* A proposal with other values than the pending entry of its id was ignored.
C1_Witness ==
  /\ last.op = "onPropose" /\ last.result = "ok" /\ Silent(last)
  /\ last.input.jid \in Jids /\ FindHandlerByJid(last.input.jid) # NoType
  /\ ~disabled[FindHandlerByJid(last.input.jid)]
  /\ last.input.id \in DOMAIN pendingSessions
  /\ pendingSessions[last.input.id].autoAnswer # last.input.flag
  /\ pendingSessions[last.input.id].address # last.input.jid
  /\ pendingSessions[last.input.id].conversationId # last.input.conv

(* C2: a new softphone proposal with autoAnswer set, while disableAutoAnswer is not
   set, has proceedWithSession invoked for it inside onPropose, and once onPropose
   has completed successfully no pending entry of that id remains; with autoAnswer
   false or disableAutoAnswer set, onPropose invokes no proceedWithSession and the
   entry is in the registry, which it leaves only by a proceed, a reject or a
   removal. *)
C2_AutoAnswerOnPropose ==
  [][/\ ( /\ last'.op = "onPropose"
          /\ last'.input.jid = "softphoneJid"
          /\ ~disabled["softphone"]
          /\ last'.input.id \notin DOMAIN pendingSessions )
        => IF last'.input.flag /\ ~config.disableAutoAnswer
           THEN /\ HasCall(last'.calls, "proceedWithSession", last'.input.id)
                /\ last'.result = "ok" => last'.input.id \notin DOMAIN pendingSessions'
           ELSE /\ ~HasCall(last'.calls, "proceedWithSession", last'.input.id)
                /\ last'.tcalls = <<>>
                /\ last'.result = "ok"
                /\ last'.input.id \in DOMAIN pendingSessions'
                /\ pendingSessions'[last'.input.id].autoAnswer = last'.input.flag
     /\ \A id \in DOMAIN pendingSessions :
          id \notin DOMAIN pendingSessions'
            => /\ last'.op \in {"proceedWithSession", "rejectPendingSession", "removePendingSession"}
               /\ last'.input.id = id]_vars

C2_Witness ==
  /\ last.op = "onPropose" /\ last.input.jid = "softphoneJid" /\ last.input.flag
  /\ ~config.disableAutoAnswer
  /\ HasCall(last.calls, "proceedWithSession", last.input.id)
  /\ HasT(last.tcalls, "acceptProposal", "ok")
  /\ last.result = "ok"
  /\ last.input.id \notin DOMAIN pendingSessions
  /\ pendingSessions # <<>>

(* C3: a session stamped at init keeps its type, the stamped type is the type of
   the handler that owns the session's peer address, and every handler operation
   an entry point invokes for the session is an operation of that one handler,
   whether the entry point resolves it by type or by address. *)
C3_TypeCorrectRouting ==
  [][/\ \A i \in DOMAIN sessions :
          sessions[i].sessionType # NoType
            => /\ sessions[i].sessionType = FindHandlerByJid(sessions[i].peerID)
               /\ (\E j \in DOMAIN sessions' : sessions'[j].id = sessions[i].id)
                    => TypeIn(sessions', sessions[i].id) = sessions[i].sessionType
     /\ \A k \in DOMAIN last'.calls :
          /\ TypeIn(sessions, last'.calls[k].sid) # NoType
               => last'.calls[k].h = TypeIn(sessions, last'.calls[k].sid)
          /\ TypeIn(sessions', last'.calls[k].sid) # NoType
               => last'.calls[k].h = TypeIn(sessions', last'.calls[k].sid)
     /\ ( /\ last'.op \in {"acceptSession", "endSession", "setAudioMute", "setVideoMute",
                           "updateOutgoingMedia"}
          /\ last'.op = "acceptSession" => last'.input.flag
          /\ TypeIn(sessions, last'.input.id) # NoType )
        => /\ Len(last'.calls) = 1
           /\ last'.calls[1].sid = last'.input.id]_vars

\* A video session, stamped at init, muted through the lookup by type after it
\* was accepted through the lookup by address.
C3_Witness ==
  /\ last.op = "setVideoMute"
  /\ last.calls = <<Call("collaborateVideo", "setVideoMute", last.input.id)>>
  /\ TypeIn(sessions, last.input.id) = "collaborateVideo"
  /\ Len(sessions) = 2

(* C4: when the handler that owns the peer address is disabled, onPropose and
   onSessionInit return without raising and invoke no handler operation; the
   pending registry and the sessions (no stamped type) are left unchanged. *)
C4_DisabledHandlerIgnores ==
  [][/\ ( /\ last'.op = "onPropose"
          /\ FindHandlerByJid(last'.input.jid) # NoType
          /\ disabled[FindHandlerByJid(last'.input.jid)] )
        => (last'.result = "ok" /\ Silent(last') /\ Untouched)
     /\ ( /\ last'.op = "onSessionInit"
          /\ last'.input.id \in SessionIds
          /\ FindHandlerByJid(SessionById(last'.input.id).peerID) # NoType
          /\ disabled[FindHandlerByJid(SessionById(last'.input.id).peerID)] )
        => (last'.result = "ok" /\ Silent(last') /\ Untouched)]_vars

\* An init event ignored for a disabled handler, beside a pending entry of an
\* enabled one.
C4_Witness ==
  /\ last.op = "onSessionInit" /\ last.result = "ok" /\ Silent(last)
  /\ last.input.id \in SessionIds
  /\ disabled[FindHandlerByJid(SessionById(last.input.id).peerID)]
  /\ TypeIn(sessions, last.input.id) = NoType
  /\ pendingSessions # <<>>

(* C5: no operation of a disabled handler is ever invoked through a Session
   Manager entry point. *)
C5_NoDisabledHandlerInvoked ==
  \A k \in DOMAIN last.calls : ~disabled[last.calls[k].h]

\* The handler that owns a session: by its stamped type, else by its peer address.
OwnerOf(s) == IF s.sessionType # NoType THEN s.sessionType ELSE FindHandlerByJid(s.peerID)
UpdateTargets(update) ==
  {sessions[i].id : i \in {j \in DOMAIN sessions :
      /\ sessions[j].conversationId = update
      /\ OwnerOf(sessions[j]) # NoType
      /\ ~disabled[OwnerOf(sessions[j])]}}

(* C6: handleConversationUpdate(update) invokes handleConversationUpdate exactly
   once for each live session of that conversation whose handler is enabled, for
   no other session, and completes without raising, also among sessions of a
   disabled handler and sessions never stamped with a type. *)
C6_ConversationUpdateDelegation ==
  last.op = "handleConversationUpdate"
    => /\ last.result = "ok"
       /\ {last.calls[k].sid : k \in DOMAIN last.calls} = UpdateTargets(last.input.conv)
       /\ Len(last.calls) = Cardinality(UpdateTargets(last.input.conv))
       /\ \A k \in DOMAIN last.calls : last.calls[k].m = "handleConversationUpdate"

(* C7: softphone endSession falls back to the direct transport terminate exactly
   once when resolving the participant, the patch or the wait for the terminated
   notification fails, and never otherwise; it raises only when that fallback
   fails, and then a session-kind error; when patch and notification both
   succeed it resolves without the direct terminate. *)
C7_SoftphoneEndFallback ==
  (last.op = "endSession" /\ HasCall(last.calls, "endSession", last.calls[1].sid)
     /\ last.calls[1].h = "softphone")
    => LET t == last.tcalls
           failed == \/ HasT(t, "getParticipant", "failed")
                     \/ HasT(t, "patchDisconnected", "failed")
                     \/ HasT(t, "terminated", "failed")
       IN /\ CountT(t, "terminate") = IF failed THEN 1 ELSE 0
          /\ last.result \notin {"ok", "pending"}
               => (last.result = "session" /\ HasT(t, "terminate", "failed"))
          /\ HasT(t, "terminate", "failed") => last.result = "session"
          /\ HasT(t, "terminate", "ok") => last.result = "ok"
          /\ (HasT(t, "patchDisconnected", "ok") /\ HasT(t, "terminated", "ok"))
               => (CountT(t, "terminate") = 0 /\ last.result = "ok")

\* The patch failed, the direct terminate was invoked once and succeeded.
C7_Witness ==
  /\ last.op = "endSession" /\ last.calls # <<>> /\ last.calls[1].h = "softphone"
  /\ HasT(last.tcalls, "patchDisconnected", "failed")
  /\ CountT(last.tcalls, "terminate") = 1
  /\ HasT(last.tcalls, "terminate", "ok")
  /\ last.result = "ok"
  /\ fate[last.calls[1].sid] = "ended"

(* C8: endSession is idempotent: after a first endSession for an id has completed
   successfully and the transport has destroyed the session, another endSession
   with the same id does not raise. *)
C8_EndSessionIdempotent ==
  (last.op = "endSession" /\ last.input.id # NoId /\ fate[last.input.id] = "ended")
    => last.result = "ok"

(* C9: a lookup failure raises a session-kind error carrying the supplied id,
   invokes no handler operation and no collaborator operation, and leaves the
   pending registry (and the sessions) unchanged: proceedWithSession and
   rejectPendingSession without a pending entry of the id, acceptSession,
   endSession, setAudioMute and setVideoMute naming a session that is not in the
   transport's collection. *)
C9_LookupFailureRaises ==
  [][( \/ /\ last'.op \in {"proceedWithSession", "rejectPendingSession"}
          /\ last'.input.id \notin DOMAIN pendingSessions
       \/ /\ last'.op \in {"acceptSession", "endSession", "setAudioMute", "setVideoMute"}
          /\ last'.op = "acceptSession" => last'.input.flag
          /\ last'.input.id # NoId
          /\ last'.input.id \notin SessionIds )
     => /\ last'.result = "session"
        /\ last'.errId = last'.input.id
        /\ Silent(last')
        /\ Untouched]_vars

\* A session-kind error for an id that names nothing, beside a live session and
\* a pending entry.
C9_Witness ==
  /\ last.op \in {"proceedWithSession", "setAudioMute"}
  /\ last.result = "session" /\ last.errId = last.input.id /\ last.input.id # NoId
  /\ pendingSessions # <<>> /\ sessions # <<>>

(* C10: acceptSession with no request or no id, and endSession with neither id nor
   conversationId, raise an invalid_options error before any lookup or handler
   call. *)
C10_MissingIdentifierInvalidOptions ==
  ( \/ last.op = "acceptSession" /\ (~last.input.flag \/ last.input.id = NoId)
    \/ last.op = "endSession" /\ last.input.id = NoId /\ last.input.conv = NoId )
    => (last.result = "invalid_options" /\ Silent(last))

FanTasksOf(sid) == {k \in DOMAIN fan.tasks : fan.tasks[k].sid = sid}
FanCompleted == fan.result \notin {"none", "running"}

(* C11: a fan-out operation (validateOutgoingMediaTracks,
   updateOutgoingMediaForAllSessions, updateOutputDeviceForAllSessions) resolves
   only once every per-session update it spawned has settled: it has no outcome,
   success or error, while an update it spawned is still in flight. *)
C11_FanoutWaitsForAll ==
  FanCompleted => \A k \in DOMAIN fan.tasks : Settled(fan.tasks[k])

ActiveIds == {id \in SessionIds : active[id]}
IsUpdate(t) == t.m # "updateOutputDeviceForAllSessions"

\* Whether the pass would find a track of that kind without its device.
LostTrack(id, kind) ==
  \E k \in DOMAIN senders[id] :
     /\ senders[id][k].kind = kind /\ senders[id][k].track # "none" /\ ~senders[id][k].screen
     /\ ~\E d \in devices : d.label = senders[id][k].label /\ d.kind = InputKind(kind)
RemainingDevices(kind) == {d \in devices : d.kind = InputKind(kind)}
SpawnedFor(tasks, id, m) == {k \in DOMAIN tasks : tasks[k].sid = id /\ tasks[k].m = m}

(* C12: the failure of one session's update does not abort a fan-out: the
   all-sessions media update spawns exactly one update for every active session,
   a reconciliation pass spawns updates for every active session that lost a
   device, whatever became of the other sessions of the pass, and when one
   update settles, failing or not, every other spawned update is still there
   and keeps its own state, to settle on its own. *)
C12_FailureDoesNotAbort ==
  [][/\ last'.op = "updateOutgoingMediaForAllSessions"
          => /\ Len(fan'.tasks) = Cardinality(ActiveIds)
             /\ \A id \in ActiveIds :
                  \E k \in DOMAIN fan'.tasks :
                     /\ fan'.tasks[k].sid = id
                     /\ fan'.tasks[k].m = "updateOutgoingMedia"
                     /\ fan'.tasks[k].st = "inflight"
     /\ last'.op = "devicesEnumerated"
          => \A id \in ActiveIds :
               (LostTrack(id, "audio") \/ LostTrack(id, "video"))
                 => \E j \in DOMAIN fan'.tasks :
                       fan'.tasks[j].sid = id /\ fan'.tasks[j].st = "inflight"
     /\ last'.op = "settle"
          => /\ DOMAIN fan'.tasks = DOMAIN fan.tasks
             /\ \E k \in DOMAIN fan.tasks :
                  /\ fan.tasks[k].st = "inflight" /\ Settled(fan'.tasks[k])
                  /\ \A j \in DOMAIN fan.tasks \ {k} :
                       IsUpdate(fan.tasks[j]) => fan'.tasks[j] = fan.tasks[j]]_vars

\* The track of a sender still has a device of its label and kind.
HasDevice(snd) ==
  \E d \in devices : d.label = snd.label /\ d.kind = InputKind(snd.kind)
\* Nothing the pass looks at is lost for this session.
NothingLost(id) ==
  /\ \A k \in DOMAIN senders[id] :
       (senders[id][k].track # "none" /\ ~senders[id][k].screen) => HasDevice(senders[id][k])
  /\ sinkId[id] # NoElement => [kind |-> "audiooutput", label |-> sinkId[id]] \in devices

(* C13: a reconciliation pass in which every outgoing track of every active
   session, screen-share tracks aside, still has a device of its label and kind,
   and every output element's selected device still exists, is a no-op: it
   spawns no update (no updateOutgoingMedia, no setAudioMute or setVideoMute, no
   track removal, no output-device update), completes, and leaves the senders
   and the output devices of the sessions as they were. *)
C13_NothingLostNoOp ==
  [][( /\ last'.op = "devicesEnumerated"
       /\ \A k \in DOMAIN fan.snapshot : NothingLost(fan.snapshot[k]) )
     => /\ fan'.tasks = <<>>
        /\ last'.calls = <<>>
        /\ fan'.result = "ok"
        /\ fan'.phase = "done"
        /\ senders' = senders /\ sinkId' = sinkId]_vars

\* A no-op pass over two sessions with a screen capture track, a microphone track
\* and an output element between them, after some unused device was lost.
C13_Witness ==
  /\ last.op = "devicesEnumerated" /\ fan.tasks = <<>> /\ fan.result = "ok"
  /\ Len(fan.snapshot) = 2
  /\ \A k \in DOMAIN fan.snapshot : NothingLost(fan.snapshot[k])
  /\ \E k \in DOMAIN fan.snapshot, j \in 1..MaxSenders :
       j \in DOMAIN senders[fan.snapshot[k]] /\ senders[fan.snapshot[k]][j].screen
  /\ \E k \in DOMAIN fan.snapshot, j \in 1..MaxSenders :
       /\ j \in DOMAIN senders[fan.snapshot[k]]
       /\ senders[fan.snapshot[k]][j].kind = "audio"
  /\ \E k \in DOMAIN fan.snapshot : sinkId[fan.snapshot[k]] # NoElement
  /\ devices # AllDevices

(* C14: in a reconciliation pass, every active session that has an outgoing audio
   track whose device is missing while no audio input device is left gets a
   setAudioMute request, every audio sender of it that carries a track has that
   track stopped and a removal from the session spawned for it, and no audio
   device switch is requested for it. *)
C14_AudioLostNoDevice ==
  [][last'.op = "devicesEnumerated"
     => \A id \in ActiveIds :
          (LostTrack(id, "audio") /\ RemainingDevices("audio") = {})
            => /\ Cardinality(SpawnedFor(fan'.tasks, id, "setAudioMute")) = 1
               /\ \A k \in DOMAIN senders[id] :
                    (senders[id][k].kind = "audio" /\ senders[id][k].track # "none")
                      => /\ senders'[id][k].track = "stopped"
                         /\ \E j \in SpawnedFor(fan'.tasks, id, "removeMediaFromSession") :
                               fan'.tasks[j].slot = k
               /\ \A j \in SpawnedFor(fan'.tasks, id, "updateOutgoingMedia") :
                    ~fan'.tasks[j].audio]_vars

(* C15: in a reconciliation pass, every active session that has an outgoing video
   track whose device is missing gets, if a video input device is left, a
   pick-any video device switch and no setVideoMute, and if none is left, a
   setVideoMute request and no video device switch. *)
C15_VideoLost ==
  [][last'.op = "devicesEnumerated"
     => \A id \in ActiveIds :
          LostTrack(id, "video")
            => IF RemainingDevices("video") # {}
               THEN /\ \E j \in SpawnedFor(fan'.tasks, id, "updateOutgoingMedia") :
                          fan'.tasks[j].video
                    /\ SpawnedFor(fan'.tasks, id, "setVideoMute") = {}
               ELSE /\ Cardinality(SpawnedFor(fan'.tasks, id, "setVideoMute")) = 1
                    /\ \A j \in SpawnedFor(fan'.tasks, id, "updateOutgoingMedia") :
                         ~fan'.tasks[j].video]_vars

(* C16: updateOutputDeviceForAllSessions called with a literal device id that the
   output-device inventory does not hold invokes updateOutputDevice for no
   session, changes no session's output device and returns without raising,
   whatever the number of active sessions. *)
C16_UnknownOutputDeviceIgnored ==
  [][( /\ last'.op = "outputDeviceValidated"
       /\ fan.arg \in OutputIds
       /\ [kind |-> "audiooutput", label |-> fan.arg] \notin devices )
     => /\ fan'.tasks = <<>>
        /\ last'.calls = <<>>
        /\ last'.result = "ok" /\ fan'.result = "ok" /\ fan'.phase = "done"
        /\ sinkId' = sinkId]_vars

\* The call with an unplugged speaker's id, over two active sessions that render
\* to an output element, while another speaker is still there.
C16_Witness ==
  /\ last.op = "outputDeviceValidated" /\ fan.result = "ok" /\ fan.tasks = <<>>
  /\ fan.arg \in OutputIds
  /\ [kind |-> "audiooutput", label |-> fan.arg] \notin devices
  /\ outputDevices # {}
  /\ Cardinality(ActiveIds) = 2
  /\ \A id \in ActiveIds : sinkId[id] # NoElement

\* The participants of a list that stand for the local user, those of them that
\* are connected, and the one the rule of the claim names (NoParticipant: none).
Mine(body) == {i \in DOMAIN body : body[i].userId = LocalUserId}
MineConnected(body) == {i \in Mine(body) : body[i].state = "connected"}
Expected(body) ==
  IF Cardinality(Mine(body)) = 1 THEN body[CHOOSE i \in Mine(body) : TRUE].id
  ELSE IF Cardinality(Mine(body)) > 1 /\ Cardinality(MineConnected(body)) = 1
  THEN body[CHOOSE i \in MineConnected(body) : TRUE].id
  ELSE NoParticipant
\* Call k got its participant list in this step.
GotList(k) ==
  /\ k \in DOMAIN procs /\ procs[k].pc = "fetching"
  /\ procs'[k].pc # "fetching" /\ procs'[k].err # "http"

(* C17: softphone participant resolution returns, among the participants of the
   fetched list whose user id is the local user's, the single one if there is
   exactly one and, if there are several, the single connected one, and caches
   it on the session; in every other case it raises a generic error and caches
   nothing, and it picks no participant in any other way. *)
C17_ParticipantResolution ==
  [][\A k \in 1..MaxProcs :
       GotList(k)
         => LET e == Expected(procs'[k].body)
                sid == procs[k].sid
            IN IF e # NoParticipant
               THEN /\ procs'[k].err = "none"
                    /\ procs'[k].part = e
                    /\ pcParticipant'[sid] = e
               ELSE /\ procs'[k].err = "generic"
                    /\ procs'[k].part = NoParticipant
                    /\ pcParticipant' = pcParticipant]_vars

\* A first call answered with two connected participants of the local user, which
\* raised and cached nothing, and a second one answered with a disconnected and
\* a connected participant of the local user, which picked the connected one.
C17_Witness ==
  /\ Len(procs) = 2
  /\ Cardinality(MineConnected(procs[1].body)) = 2
  /\ procs[1].err = "generic" /\ procs[1].part = NoParticipant
  /\ Cardinality(Mine(procs[2].body)) = 2
  /\ procs[2].body[1].userId = LocalUserId /\ procs[2].body[1].state = "disconnected"
  /\ procs[2].err = "none" /\ procs[2].part = Expected(procs[2].body)
  /\ pcParticipant[procs[2].sid] = procs[2].part
  /\ procs[2].part # 1

(* C18: the conversation's participant list is fetched at most once per session,
   however softphone setAudioMute and endSession calls on the session follow or
   overlap each other, and a participant cached on a session is never replaced
   or cleared while the session lives. *)
C18_ParticipantFetchedOnce ==
  [][\A id \in Ids :
       /\ fetches'[id] <= 1
       /\ (id \in SessionIds /\ id \in SessionIds' /\ pcParticipant[id] # NoParticipant)
            => pcParticipant'[id] = pcParticipant[id]]_vars

(* C19: when onPropose is delivered again with the session id of the delivery
   before it, to an enabled handler and with no proceed or reject of the caller
   in between, the later delivery has no side effect: it invokes no handler
   operation (no handlePropose), brings no transport accept and leaves the
   pending registry as it was, whatever the autoAnswer value. *)
C19_RepeatedProposalOnce ==
  [][( /\ last.op = "onPropose" /\ HasCall(last.calls, "handlePropose", last.input.id)
       /\ last'.op = "onPropose" /\ last'.input.id = last.input.id
       /\ FindHandlerByJid(last'.input.jid) # NoType
       /\ ~disabled[FindHandlerByJid(last'.input.jid)] )
     => /\ Silent(last')
        /\ last'.result = "ok"
        /\ pendingSessions' = pendingSessions]_vars

\* Call k is a softphone setAudioMute that this step started or moved on.
MuteStep(k) ==
  /\ k \in DOMAIN procs' /\ procs'[k].op = "setAudioMute"
  /\ k \in DOMAIN procs => procs'[k] # procs[k]
  /\ last'.op \in {"setAudioMute", "participantsFetched", "patchAnswered"}

(* C20: softphone setAudioMute only patches the participant's muted field through
   the REST collaborator: no step of it changes a sender of a session, the
   enabled state of a local track or the pending registry, or invokes another
   handler operation, and it ends well or, when the participant resolution or
   the patch fails, with a generic error. *)
C20_SoftphoneMuteRemoteOnly ==
  [][\A k \in 1..MaxProcs :
       MuteStep(k)
         => /\ senders' = senders
            /\ pendingSessions' = pendingSessions
            /\ Silent(last')
            /\ procs'[k].result \in {"running", "ok", "generic"}
            /\ procs'[k].pc = "done"
                 => procs'[k].result =
                      IF procs'[k].err = "none" /\ procs'[k].patch = "ok"
                      THEN "ok" ELSE "generic"]_vars

\* A mute that went through and one whose patch failed, on a session that sends
\* a live, enabled microphone track, beside a pending proposal.
C20_Witness ==
  /\ Len(procs) = 2
  /\ procs[1].op = "setAudioMute" /\ procs[1].result = "ok"
  /\ procs[2].op = "setAudioMute" /\ procs[2].sid = procs[1].sid
  /\ procs[2].patch = "failed" /\ procs[2].result = "generic"
  /\ senders[procs[1].sid] # <<>>
  /\ \A j \in DOMAIN senders[procs[1].sid] :
       senders[procs[1].sid][j].enabled /\ senders[procs[1].sid][j].track = "live"
  /\ pendingSessions # <<>>

(* C21: in a reconciliation pass the missing devices coalesce per session and per
   kind: however many outgoing tracks of a session lost their device, the pass
   spawns at most one updateOutgoingMedia for the session (with one audio and
   one video switch flag), at most one setAudioMute and at most one
   setVideoMute. *)
C21_LostDevicesCoalesce ==
  fan.op = "validateOutgoingMediaTracks"
    => \A id \in Ids : \A m \in {"updateOutgoingMedia", "setAudioMute", "setVideoMute"} :
         Cardinality(SpawnedFor(fan.tasks, id, m)) <= 1

\* A pass over a session with two microphone tracks that both lost their device
\* while another microphone is left: one update for the session.
C21_Witness ==
  /\ last.op = "devicesEnumerated"
  /\ \E id \in Ids :
       /\ Len(senders[id]) = 2
       /\ \A k \in DOMAIN senders[id] :
            senders[id][k].kind = "audio" /\ senders[id][k].track = "live"
              /\ ~HasDevice(senders[id][k])
       /\ audioDevices # {}
       /\ \E j \in DOMAIN fan.tasks :
            /\ fan.tasks[j].sid = id /\ fan.tasks[j].m = "updateOutgoingMedia"
            /\ fan.tasks[j].audio /\ ~fan.tasks[j].video

\* The sessions an all-sessions output update is for.
WantsOutputUpdate(id) == id \in ActiveIds /\ SessionById(id).sessionType # "screenShare"
OutputUpdatesFor(tasks, id) == Cardinality(SpawnedFor(tasks, id, "updateOutputDevice"))
NestedOutputUpdates(tasks) ==
  Cardinality({k \in DOMAIN tasks : tasks[k].m = "updateOutputDeviceForAllSessions"})

(* C22: updateOutputDeviceForAllSessions with a valid or pick-any device selector
   invokes updateOutputDevice exactly once for every session that is active and
   not of the screen-share type and never for another session, and a
   reconciliation pass whose scan found a lost output device triggers that
   all-sessions update exactly once, whatever the number of sessions that lost
   it. *)
C22_OutputUpdateOncePerSession ==
  [][/\ ( \/ /\ last'.op = "outputDeviceValidated"
             /\ fan.arg \in OutputIds => [kind |-> "audiooutput", label |-> fan.arg] \in devices
          \/ last'.op = "nestedOutputValidated" )
          => \A id \in Ids :
               OutputUpdatesFor(fan'.tasks, id) = IF WantsOutputUpdate(id) THEN 1 ELSE 0
     /\ last'.op = "devicesEnumerated"
          => /\ NestedOutputUpdates(fan'.tasks) <= 1
             /\ last'.input.flag => NestedOutputUpdates(fan'.tasks) = 1]_vars

\* Call k is a softphone acceptSession.
IsAccept(k) == k \in DOMAIN procs /\ procs[k].op = "acceptSession"

(* C23: in softphone acceptSession the base accept (which tells the transport
   that the session is accepted) is invoked only once an outgoing stream has been
   obtained (supplied, configured default or freshly acquired) and attached to
   the session; when acquiring or attaching the media fails the base accept is
   never invoked for that call and the call ends with the failure. *)
C23_AcceptAfterMedia ==
  [][\A k \in 1..MaxProcs :
       /\ (IsAccept(k) /\ procs[k].accept # "none")
            => /\ procs[k].stream \in {"supplied", "default", "acquired"}
               /\ procs[k].attached
               /\ senders[procs[k].sid] # <<>>
       /\ (k \in DOMAIN procs' /\ procs'[k].op = "acceptSession"
             /\ HasCall(last'.calls, "acceptSession", procs'[k].sid))
            => /\ last'.op = "mediaAdded" /\ HasT(last'.tcalls, "addMedia", "ok")
               /\ senders'[procs'[k].sid] # <<>>
       /\ (IsAccept(k) /\ procs[k].pc \in {"starting", "adding"} /\ procs'[k].result = "failed")
            => /\ procs'[k].pc = "done" /\ procs'[k].accept = "none"
               /\ ~HasCall(last'.calls, "acceptSession", procs[k].sid)
               /\ ~HasT(last'.tcalls, "accept", "ok") /\ ~HasT(last'.tcalls, "accept", "failed")
       /\ (IsAccept(k) /\ procs[k].pc = "done")
            => procs'[k] = procs[k]]_vars

\* One accept that acquired its stream and was accepted by the transport, and
\* one without a stream whose media could not be started.
C23_Witness ==
  /\ Len(procs) = 2
  /\ procs[1].op = "acceptSession" /\ procs[1].stream = "acquired"
  /\ procs[1].accept = "ok" /\ procs[1].result = "ok"
  /\ procs[2].op = "acceptSession" /\ procs[2].stream = "none"
  /\ procs[2].pc = "done" /\ procs[2].result = "failed" /\ procs[2].accept = "none"

\* A session of the pass's snapshot has left the transport's collection.
Vanished == {fan.snapshot[k] : k \in DOMAIN fan.snapshot} \ SessionIds

(* C24: a session that terminates and leaves the transport's collection while a
   reconciliation pass awaits the device inventory does not disturb the pass:
   the pass does not fail with the lookup error of the vanished session, and
   every other session of its snapshot that lost a device still gets its
   updates. *)
C24_VanishedSessionHarmless ==
  [][(last'.op = "devicesEnumerated" /\ Vanished # {})
     => /\ last'.result # "session"
        /\ \A id \in ActiveIds :
             (LostTrack(id, "audio") \/ LostTrack(id, "video"))
               => FanTasksOf(id)' # {}]_vars

\* Call k still waits for an answer of a collaborator: the participant list,
\* its patch or the direct terminate.
AwaitsCollaborator(k) ==
  procs[k].pc \in {"fetching", "fallback"} \/ procs[k].patch = "pending"

(* C25: every softphone endSession call eventually completes, provided each
   collaborator call it makes eventually settles, also when the transport never
   emits the terminated notification: no unfinished call is ever left with
   nothing that could still complete it, that is with no collaborator call in
   flight and no session in the transport's collection whose terminated
   notification could still arrive. *)
C25_EndSessionCompletes ==
  \A k \in DOMAIN procs :
     (procs[k].op = "endSession" /\ procs[k].pc # "done")
       => (AwaitsCollaborator(k) \/ procs[k].sid \in SessionIds)
====
